---- MODULE Spec2Model ----
(***************************************************************************)
(* Model of backend/main.py: a FastAPI application with one route,         *)
(* GET /config, whose handler get_config() builds a dict with four         *)
(* os.getenv(key, "NOT_SET") lookups and returns it.                       *)
(*                                                                         *)
(* The handler is a plain `def`, so FastAPI runs each request in a worker  *)
(* thread: the four lookups of one request are separate steps that may     *)
(* interleave with the lookups of other requests.  The process environment *)
(* (os.environ) is a mapping from names to strings; the handler only reads *)
(* it.  It is changed from outside the handler (deployment tooling, a test *)
(* harness) between requests.                                              *)
(***************************************************************************)
EXTENDS Naturals, Sequences, FiniteSets, TLC

\* ------------------------------------------------------------------ bounds

\* Number of requests that may be in flight at the same time.
MaxRequests == 2

Requests == 1..MaxRequests

\* ------------------------------------------------------- program constants

\* The default handed to every os.getenv call (main.py:9-12).
NOT_SET == "NOT_SET"

\* Mutant of KeyOrder: a copy-paste slip repeats AIDIAGEXPERT_ENDPOINT where
\* AIDIAGEXPERT_KEY belongs (a dict display keeps the last value of a
\* repeated key).
KeyOrderDuplicate ==
    << "COSMOS_DB_ENDPOINT", "AIDIAGEXPERT_ENDPOINT", "AIDIAGEXPERT_ENDPOINT",
       "AZURE_STORAGE_CONNECTION_STRING_1" >>

\* Mutant of KeyOrder: the entries written in alphabetical order.
KeyOrderSorted ==
    << "AIDIAGEXPERT_ENDPOINT", "AIDIAGEXPERT_KEY",
       "AZURE_STORAGE_CONNECTION_STRING_1", "COSMOS_DB_ENDPOINT" >>

\* The entries of the dict display of get_config, in source order
\* (main.py:9-12).  Python evaluates them top to bottom.
KeyOrder ==
    << "COSMOS_DB_ENDPOINT", "AIDIAGEXPERT_ENDPOINT", "AIDIAGEXPERT_KEY",
       "AZURE_STORAGE_CONNECTION_STRING_1" >>

\* A variable of the process environment that get_config never names.
OtherNames == {"PATH"}

\* Names of environment variables the host may set.
Names == {KeyOrder[i] : i \in DOMAIN KeyOrder} \cup OtherNames

\* Values an environment variable may hold: the empty string, a string equal
\* to the default, and an ordinary value.
Values == {"", "NOT_SET", "v"}

\* Values the host gives to variable n: any value to one of the four, one
\* value to a variable get_config never reads.
ValuesOf(n) == IF n \in OtherNames THEN {"v"} ELSE Values

\* ---------------------------------------------------------------- state

VARIABLES
    env,      \* os.environ: a function from the names that are set to strings
    state,    \* state[r]: "idle", "running" (inside get_config), "responded"
    next,     \* next[r]: index of the next entry of the dict display
    local,    \* local[f]: the dict under construction in frame f, as the
              \*   sequence of its <<key, value>> items in insertion order
    resp,     \* resp[r]: the HTTP response of request r, once produced
    prev,     \* history: <<body>> of the last response delivered since the
              \*   environment last changed, or << >>
    served    \* history: TRUE once a response was delivered before the
              \*   latest change of the environment

vars == << env, state, next, local, resp, prev, served >>

\* ------------------------------------------------------- Python mappings

\* os.environ[n] = v
EnvSet(e, n, v) == [x \in (DOMAIN e) \cup {n} |-> IF x = n THEN v ELSE e[x]]

\* del os.environ[n]
EnvDel(e, n) == [x \in (DOMAIN e) \ {n} |-> e[x]]

\* The environment the process is started with: nothing set.
StartEnv == [x \in {} |-> ""]

\* Keys of a dict.
DictKeys(d) == {d[i][1] : i \in DOMAIN d}

\* d[k] for a key that is present.
DictGet(d, k) == d[CHOOSE i \in DOMAIN d : d[i][1] = k][2]

\* d[k] = v: a new key is appended, a present key keeps its position.
DictSet(d, k, v) ==
    IF k \in DictKeys(d)
    THEN [i \in DOMAIN d |-> IF d[i][1] = k THEN <<k, v>> ELSE d[i]]
    ELSE Append(d, <<k, v>>)

\* The order in which the keys of a dict are serialized.
DictOrder(d) == [i \in DOMAIN d |-> d[i][1]]

EmptyDict == << >>

\* ------------------------------------------------------------ os.getenv

\* The outcome of a call: whether it raised, the value it returned, and the
\* mapping it leaves behind.

\* Mutant of getenv: `os.getenv(key) or default`.
getenv_or(e, key, default) ==
    [raised  |-> FALSE,
     value   |-> IF key \in DOMAIN e /\ e[key] # "" THEN e[key] ELSE default,
     environ |-> e]

\* Mutant of getenv: `os.getenv(key, "")`, the default argument lost.
getenv_empty_default(e, key, default) ==
    [raised  |-> FALSE,
     value   |-> IF key \in DOMAIN e THEN e[key] ELSE "",
     environ |-> e]

\* Mutant of getenv: `os.getenv(key, "NOT SET")`, the default misspelt.
getenv_misspelt_default(e, key, default) ==
    [raised  |-> FALSE,
     value   |-> IF key \in DOMAIN e THEN e[key] ELSE "NOT SET",
     environ |-> e]

\* Mutant of getenv: `os.environ[key]`, which raises KeyError when absent.
getenv_getitem(e, key, default) ==
    [raised  |-> key \notin DOMAIN e,
     value   |-> IF key \in DOMAIN e THEN e[key] ELSE default,
     environ |-> e]

\* Mutant of getenv: `os.environ.pop(key, default)`.
getenv_pop(e, key, default) ==
    [raised  |-> FALSE,
     value   |-> IF key \in DOMAIN e THEN e[key] ELSE default,
     environ |-> EnvDel(e, key)]

\* Mutant of getenv: `os.environ.setdefault(key, default)`.
getenv_setdefault(e, key, default) ==
    [raised  |-> FALSE,
     value   |-> IF key \in DOMAIN e THEN e[key] ELSE default,
     environ |-> IF key \in DOMAIN e THEN e ELSE EnvSet(e, key, default)]

\* Mutant of getenv: the lookup goes to a copy of the environment taken when
\* the module was imported.
getenv_at_import(e, key, default) ==
    [raised  |-> FALSE,
     value   |-> IF key \in DOMAIN StartEnv THEN StartEnv[key] ELSE default,
     environ |-> e]

\* os.getenv(key, default) == os.environ.get(key, default): the value of key
\* when key is set (the empty string included), default otherwise.  It never
\* raises and never writes.
getenv(e, key, default) ==
    [raised  |-> FALSE,
     value   |-> IF key \in DOMAIN e THEN e[key] ELSE default,
     environ |-> e]

\* ------------------------------------------------------------- responses

NoResponse == [status |-> 0, body |-> EmptyDict]

\* FastAPI's answer to a handler that returns a dict: 200 with the dict as
\* the JSON object.
response(d) == [status |-> 200, body |-> d]

\* FastAPI's answer to a handler that raises.
server_error == [status |-> 500, body |-> EmptyDict]

\* Mutant of frame: the dict is a module-level object shared by all requests.
frame_shared(r) == 1

\* The frame of the invocation serving request r: each call of get_config
\* has its own.
frame(r) == r

\* get_config() run from start to end with no other thread in between:
\* the response it produces in environment e.
RECURSIVE get_config_from(_, _, _)
get_config_from(e, d, i) ==
    IF i > Len(KeyOrder) THEN response(d)
    ELSE LET res == getenv(e, KeyOrder[i], NOT_SET)
         IN  IF res.raised THEN server_error
             ELSE get_config_from(res.environ,
                                  DictSet(d, KeyOrder[i], res.value), i + 1)

get_config(e) == get_config_from(e, EmptyDict, 1)

\* ----------------------------------------------------------------- Init

Init ==
    /\ env = StartEnv
    /\ state = [r \in Requests |-> "idle"]
    /\ next = [r \in Requests |-> 1]
    /\ local = [f \in Requests |-> EmptyDict]
    /\ resp = [r \in Requests |-> NoResponse]
    /\ prev = << >>
    /\ served = FALSE

AllIdle == \A r \in Requests : state[r] = "idle"

\* -------------------------------------------------------------- actions

\* GET /config arrives and get_config is entered: the dict display starts
\* from an empty dict.
Request(r) ==
    /\ state[r] = "idle"
    /\ state' = [state EXCEPT ![r] = "running"]
    /\ next' = [next EXCEPT ![r] = 1]
    /\ local' = [local EXCEPT ![frame(r)] = EmptyDict]
    /\ UNCHANGED << env, resp, prev, served >>

\* One entry of the dict display: the key, then os.getenv(key, "NOT_SET").
Lookup(r) ==
    /\ state[r] = "running"
    /\ next[r] <= Len(KeyOrder)
    /\ LET key == KeyOrder[next[r]]
           res == getenv(env, key, NOT_SET)
       IN  /\ env' = res.environ
           /\ IF res.raised
              THEN /\ resp' = [resp EXCEPT ![r] = server_error]
                   /\ state' = [state EXCEPT ![r] = "responded"]
                   /\ next' = [next EXCEPT ![r] = 1]
                   /\ local' = [local EXCEPT ![frame(r)] = EmptyDict]
              ELSE /\ local' = [local EXCEPT
                                  ![frame(r)] = DictSet(@, key, res.value)]
                   /\ next' = [next EXCEPT ![r] = @ + 1]
                   /\ UNCHANGED << resp, state >>
    /\ UNCHANGED << prev, served >>

\* `return {...}`: the dict is complete and FastAPI turns it into the
\* response.
Return(r) ==
    /\ state[r] = "running"
    /\ next[r] > Len(KeyOrder)
    /\ resp' = [resp EXCEPT ![r] = response(local[frame(r)])]
    /\ state' = [state EXCEPT ![r] = "responded"]
    /\ next' = [next EXCEPT ![r] = 1]
    /\ local' = [local EXCEPT ![frame(r)] = EmptyDict]
    /\ UNCHANGED << env, prev, served >>

\* The response is sent and the request is over.
Deliver(r) ==
    /\ state[r] = "responded"
    /\ prev' = << resp[r].body >>
    /\ resp' = [resp EXCEPT ![r] = NoResponse]
    /\ state' = [state EXCEPT ![r] = "idle"]
    /\ UNCHANGED << env, next, local, served >>

\* The host sets or changes a variable while no request is being served.
SetEnv(n, v) ==
    /\ AllIdle
    /\ ~(n \in DOMAIN env /\ env[n] = v)
    /\ env' = EnvSet(env, n, v)
    /\ served' = (served \/ prev # << >>)
    /\ prev' = << >>
    /\ UNCHANGED << state, next, local, resp >>

\* The host removes a variable while no request is being served.
UnsetEnv(n) ==
    /\ AllIdle
    /\ n \in DOMAIN env
    /\ env' = EnvDel(env, n)
    /\ served' = (served \/ prev # << >>)
    /\ prev' = << >>
    /\ UNCHANGED << state, next, local, resp >>

Next ==
    \/ \E r \in Requests : Request(r)
    \/ \E r \in Requests : Lookup(r)
    \/ \E r \in Requests : Return(r)
    \/ \E r \in Requests : Deliver(r)
    \/ \E n \in Names : \E v \in ValuesOf(n) : SetEnv(n, v)
    \/ \E n \in Names : UnsetEnv(n)

Spec == Init /\ [][Next]_vars

\* ---------------------------------------------------------------- claims

\* The four fields of the GET /config response, written out.
FourKeys ==
    {"COSMOS_DB_ENDPOINT", "AIDIAGEXPERT_ENDPOINT", "AIDIAGEXPERT_KEY",
     "AZURE_STORAGE_CONNECTION_STRING_1"}

Responded(r) == state[r] = "responded"

\* The field k of a response body equals v.
FieldIs(body, k, v) == k \in DictKeys(body) /\ DictGet(body, k) = v

\* C1: whenever a response has been produced, every one of the four keys
\* that is set in the environment to a value v (the empty string included)
\* has v as its response field.
C1_SetValueEchoed ==
    \A r \in Requests : Responded(r) =>
        \A k \in FourKeys :
            k \in DOMAIN env => FieldIs(resp[r].body, k, env[k])

\* A response was produced while one key is set to the empty string and
\* another to an ordinary value, and it echoes both.
C1_Witness ==
    \E r \in Requests :
        /\ Responded(r)
        /\ "AIDIAGEXPERT_KEY" \in DOMAIN env /\ env["AIDIAGEXPERT_KEY"] = ""
        /\ "COSMOS_DB_ENDPOINT" \in DOMAIN env /\ env["COSMOS_DB_ENDPOINT"] = "v"
        /\ FieldIs(resp[r].body, "AIDIAGEXPERT_KEY", "")
        /\ FieldIs(resp[r].body, "COSMOS_DB_ENDPOINT", "v")

\* C2: whenever a response has been produced, every one of the four keys
\* that is absent from the environment has the literal "NOT_SET" as its
\* response field.
C2_AbsentIsNotSet ==
    \A r \in Requests : Responded(r) =>
        \A k \in FourKeys :
            k \notin DOMAIN env => FieldIs(resp[r].body, k, "NOT_SET")

\* A response was produced while some of the four keys are absent and some
\* are set, and an absent one reads "NOT_SET".
C2_Witness ==
    \E r \in Requests :
        /\ Responded(r)
        /\ "AIDIAGEXPERT_ENDPOINT" \notin DOMAIN env
        /\ "COSMOS_DB_ENDPOINT" \in DOMAIN env
        /\ FieldIs(resp[r].body, "AIDIAGEXPERT_ENDPOINT", "NOT_SET")

\* C3: the key set of every response is exactly the four keys, each once,
\* whatever else the environment holds.
C3_ExactlyFourKeys ==
    \A r \in Requests : Responded(r) =>
        /\ DictKeys(resp[r].body) = FourKeys
        /\ Len(resp[r].body) = 4

\* A response was produced while a variable outside the four is set, one of
\* the four is set and another is absent.
C3_Witness ==
    \E r \in Requests :
        /\ Responded(r)
        /\ "PATH" \in DOMAIN env
        /\ "AIDIAGEXPERT_KEY" \in DOMAIN env
        /\ "COSMOS_DB_ENDPOINT" \notin DOMAIN env
        /\ DictKeys(resp[r].body) = FourKeys

\* A JSON object whose fields are strings: distinct keys, values among the
\* strings an environment variable or the default can be.
IsJsonObject(body) ==
    /\ Cardinality(DictKeys(body)) = Len(body)
    /\ \A i \in DOMAIN body : body[i][2] \in Values \cup {"NOT_SET"}

\* C4: no request ends in an error: in every environment, every response
\* produced has status 200 and a JSON object as its body.
C4_AlwaysOk200 ==
    \A r \in Requests : Responded(r) =>
        resp[r].status = 200 /\ IsJsonObject(resp[r].body)

\* A response with status 200 was produced with none of the four set.
C4_Witness ==
    \E r \in Requests :
        /\ Responded(r)
        /\ FourKeys \cap DOMAIN env = {}
        /\ resp[r].status = 200

\* C5: a response produced after another response was delivered, with no
\* change of the environment in between, has the same body: same keys, same
\* values, same order.
C5_Idempotent ==
    \A r \in Requests :
        Responded(r) /\ prev # << >> => resp[r].body = prev[1]

\* A second response was produced after a first one was delivered in an
\* unchanged environment that has a key set.
C5_Witness ==
    \E r \in Requests :
        /\ Responded(r)
        /\ prev # << >>
        /\ "AIDIAGEXPERT_ENDPOINT" \in DOMAIN env
        /\ resp[r].body = prev[1]

\* A step of serving some request.
Serve == \E r \in Requests : Request(r) \/ Lookup(r) \/ Return(r) \/ Deliver(r)

\* C6: no step of serving a request changes the environment, and a request
\* that is over leaves the server as it was before the request: no response,
\* an empty frame, the handler at its start.
C6_NoSideEffects ==
    [][ /\ Serve => env' = env
        /\ \A r \in Requests : Deliver(r) =>
               /\ state'[r] = "idle"
               /\ resp'[r] = NoResponse
               /\ local'[r] = EmptyDict
               /\ next'[r] = 1 ]_vars

\* Two responses have been produced and one delivered, and the environment
\* still holds what the host set.
C6_Witness ==
    /\ \E r \in Requests : Responded(r)
    /\ prev # << >>
    /\ DOMAIN env = Names
    /\ \A n \in Names : env[n] = "v"

\* C7: the fields of every response are in the order of the source:
\* COSMOS_DB_ENDPOINT, AIDIAGEXPERT_ENDPOINT, AIDIAGEXPERT_KEY,
\* AZURE_STORAGE_CONNECTION_STRING_1.
C7_FixedKeyOrder ==
    \A r \in Requests : Responded(r) =>
        DictOrder(resp[r].body) =
            << "COSMOS_DB_ENDPOINT", "AIDIAGEXPERT_ENDPOINT",
               "AIDIAGEXPERT_KEY", "AZURE_STORAGE_CONNECTION_STRING_1" >>

\* A response was produced while only the last and the third key are set.
C7_Witness ==
    \E r \in Requests :
        /\ Responded(r)
        /\ FourKeys \cap DOMAIN env =
               {"AZURE_STORAGE_CONNECTION_STRING_1", "AIDIAGEXPERT_KEY"}
        /\ Len(resp[r].body) = 4
        /\ resp[r].body[1][1] = "COSMOS_DB_ENDPOINT"

\* What a response body must say about key k in the environment as it is.
Current(k) == IF k \in DOMAIN env THEN env[k] ELSE "NOT_SET"

\* C8: every response produced reflects the environment as it is while the
\* request is served, also after the environment changed since an earlier
\* response or since the process started.
C8_NoCaching ==
    \A r \in Requests : Responded(r) =>
        \A k \in FourKeys : FieldIs(resp[r].body, k, Current(k))

\* A response was produced after the environment changed since an earlier
\* delivered response, and it differs from what the start environment gives.
C8_Witness ==
    \E r \in Requests :
        /\ Responded(r)
        /\ served
        /\ \E k \in FourKeys :
               /\ k \in DOMAIN env /\ env[k] = "v"
               /\ FieldIs(resp[r].body, k, "v")

\* C9: with the lookups of the requests interleaved in any order, every
\* response produced is the response get_config gives when run alone in
\* this environment, and a request inside the handler can always take its
\* next step, whatever the other requests are doing.
C9_ConcurrentIndependent ==
    \A r \in Requests :
        /\ Responded(r) => resp[r] = get_config(env)
        /\ state[r] = "running" => ENABLED (Lookup(r) \/ Return(r))

\* Two requests overlapped: one has its response while the other is in the
\* middle of its lookups.
C9_Witness ==
    \E r, q \in Requests :
        /\ r # q
        /\ Responded(r)
        /\ state[q] = "running" /\ next[q] = 3
        /\ "AIDIAGEXPERT_KEY" \in DOMAIN env
        /\ resp[r] = get_config(env)

\* C10: a response produced while a key is absent is the response of the
\* environment that differs only in having that key set to "NOT_SET", and
\* the other way round.
C10_SentinelIndistinguishable ==
    \A r \in Requests : Responded(r) =>
        \A k \in FourKeys :
            /\ k \notin DOMAIN env =>
                   resp[r] = get_config(EnvSet(env, k, "NOT_SET"))
            /\ k \in DOMAIN env /\ env[k] = "NOT_SET" =>
                   resp[r] = get_config(EnvDel(env, k))

\* A response was produced while one key is absent and another is set to
\* the string "NOT_SET".
C10_Witness ==
    \E r \in Requests :
        /\ Responded(r)
        /\ "AIDIAGEXPERT_KEY" \notin DOMAIN env
        /\ "COSMOS_DB_ENDPOINT" \in DOMAIN env
        /\ env["COSMOS_DB_ENDPOINT"] = "NOT_SET"
        /\ DictGet(resp[r].body, "AIDIAGEXPERT_KEY")
               = DictGet(resp[r].body, "COSMOS_DB_ENDPOINT")

====
